---- MODULE Spec2Model ----
(***************************************************************************)
(* Model of the Apple Notes MCP server's command layer:                    *)
(*   - sanitizeForAppleScript (src/src/utils/applescript.ts:59-70), a pure *)
(*     function over strings, checked under SanSpec;                       *)
(*   - runAppleScript (src/src/utils/applescript.ts:9-53), one invocation  *)
(*     with its child process and its event handlers, checked under        *)
(*     ExecSpec (safety) and ExecLive (liveness, with fairness).           *)
(* A string is a sequence of one-character strings.                        *)
(***************************************************************************)
EXTENDS Integers, Sequences, FiniteSets, TLC

VARIABLES
    \* sanitizer / command builder
    raw,            \* the caller's text handed to sanitizeForAppleScript
    sanitized,      \* its result
    command,        \* the template with the result in its literal position
    sanPc,          \* "off" | "start" | "sanitized" | "built"
    \* one invocation of runAppleScript
    script,         \* the command text passed by the caller
    promise,        \* "none" | "pending" | "resolved" | "rejected"
    delivered,      \* the CommandOutcome values the promise handed to its caller
    resolveArgs,    \* every value passed to resolve(), in call order
    spawned,        \* the processes started: file, argument vector, options
    child,          \* "none" | "running" | "exited" | "spawnfail"
    spawnError,     \* errno name of a failed launch, "none" otherwise
    hangs,          \* the child never exits on its own
    chunks,         \* const chunks: Buffer[]
    errorChunks,    \* const errorChunks: Buffer[]
    stdoutPipe,     \* written by the child, 'data' not yet emitted
    stderrPipe,
    exitCode,       \* code of the terminated child (null if killed by a signal)
    exitDelivered,  \* 'exit' has been emitted
    errorsEmitted,  \* number of 'error' events emitted
    timerArmed,     \* the timeout timer of spawn() is pending
    elapsed         \* milliseconds since spawn()

sanVars == <<raw, sanitized, command, sanPc>>

execVars == <<script, promise, delivered, resolveArgs, spawned, child, spawnError, hangs,
              chunks, errorChunks, stdoutPipe, stderrPipe, exitCode, exitDelivered,
              errorsEmitted, timerArmed, elapsed>>

\* Several invocations of runAppleScript in flight at once.
VARIABLES
    cState,         \* per invocation: "none" | "running" | "spawnfail" | "exited" | "failed"
    cBuf,           \* the chunks and errorChunks arrays, by array instance
    cWrittenOut,    \* per child: what it wrote to its stdout
    cWrittenErr,    \* per child: what it wrote to its stderr
    cExitCode,      \* per child: its exit code
    cDelivered,     \* per invocation: the CommandOutcome values handed to its caller
    cOverlap        \* an event of one child was handled while another child ran

concVars == <<cState, cBuf, cWrittenOut, cWrittenErr, cExitCode, cDelivered, cOverlap>>

\* Decoding of a list printed by the interpreter.
VARIABLES
    listOp,         \* "searchNotes" | "getFolders" | "getAccounts"
    listOutput,     \* result.output of a successful outcome
    listItems,      \* the titles or names of the returned collection
    listPc          \* "off" | "start" | "done"

listVars == <<listOp, listOutput, listItems, listPc>>

\* The rate limiter of the tool handlers.
VARIABLES
    requestCounts,  \* Map<string, { count, resetTime }>
    now,            \* Date.now()
    admittedAt,     \* per tool and instant: the requests checkRateLimit let pass
    rejectedAt,     \* per tool and instant: the requests checkRateLimit threw on
    opened          \* per tool: the instants of the requests that opened a window

rateVars == <<requestCounts, now, admittedAt, rejectedAt, opened>>

\* One request to a tool handler.
VARIABLES
    tool,           \* the tool called
    world,          \* the arguments and what Notes holds
    tPc,            \* "off" | "start" | "awaiting" | "done"
    tTrace,         \* what the handler did, in order
    tFates,         \* how each started process went
    tCommands,      \* the commands handed to runAppleScript, in order
    tActed,         \* Notes has carried out the command that is running
    tNotes,         \* the notes made in Notes on behalf of the request
    tOutcomes,      \* the CommandOutcome values the manager received
    tResult,        \* what the manager operation returned or threw
    tResponse       \* the response of the handler

toolVars == <<tool, world, tPc, tTrace, tFates, tCommands, tActed, tNotes, tOutcomes,
              tResult, tResponse>>

\* Concurrent requests to one tool handler.
VARIABLES
    bTool,          \* the tool the requests call
    bWorld,         \* their arguments and what Notes holds
    bCalls,         \* per request: null, or the outcomes its operation received
    bVerdict,       \* what checkRateLimit did with the latest request
    bSpawned,       \* interpreter processes started for the tool in its window
    bSecond         \* those of them that ran a second command

burstVars == <<bTool, bWorld, bCalls, bVerdict, bSpawned, bSecond>>

restOfExec == <<sanVars, concVars, listVars, rateVars, toolVars, burstVars>>
restOfSan == <<execVars, concVars, listVars, rateVars, toolVars, burstVars>>
restOfConc == <<sanVars, execVars, listVars, rateVars, toolVars, burstVars>>
restOfList == <<sanVars, execVars, concVars, rateVars, toolVars, burstVars>>
restOfTool == <<sanVars, execVars, concVars, listVars, burstVars>>
restOfBurst == <<sanVars, execVars, concVars, listVars, toolVars>>
restOfRate == <<sanVars, execVars, concVars, listVars, toolVars, burstVars>>

vars == <<sanVars, execVars, concVars, listVars, rateVars, toolVars, burstVars>>

----------------------------------------------------------------------------
\* Bounds of the model.

\* invocations of runAppleScript in flight together
MaxInvocations == 2

\* 'data' events of one child among concurrent invocations
MaxConcChunks == 1

\* length of the list outputs that are decoded
MaxListLen == 4

\* the step of the clock of the rate limiter
RateTickMs == 40000

\* rejected requests for a tool at one instant
MaxRejections == 1

\* longest enumerated input text of the sanitizer
MaxLen == 3

\* most chunks the child writes to its standard output
MaxChunks == 2

\* most chunks the child writes to its standard error
MaxErrChunks == 1

\* granularity of the clock, in milliseconds, and number of its steps
TickMs == 5000
MaxTicks == 3

----------------------------------------------------------------------------
\* Characters.

BACKSLASH == "\\"
DQUOTE == "\""
SQUOTE == "'"
LF == "\n"
CR == "\r"
TAB == "\t"

\* The six characters the sanitizer rewrites.
Special == {BACKSLASH, DQUOTE, SQUOTE, LF, CR, TAB}

\* Input alphabet: the six special characters and three ordinary ones; "n"
\* is ordinary in the input and the second character of the escape of LF.
Alphabet == Special \cup {"a", "n", " "}

RECURSIVE StringsUpTo(_)
StringsUpTo(k) ==
    IF k = 0 THEN {<< >>}
    ELSE LET shorter == StringsUpTo(k - 1)
         IN  shorter \cup {Append(s, c) : s \in {t \in shorter : Len(t) = k - 1}, c \in Alphabet}

\* The crafted value of the injection scenario:
\*   abc" & do shell script "rm -rf /" & "
Crafted ==
    <<"a", "b", "c", DQUOTE, " ", "&", " ", "d", "o", " ", "s", "h", "e", "l", "l", " ",
      "s", "c", "r", "i", "p", "t", " ", DQUOTE, "r", "m", " ", "-", "r", "f", " ", "/",
      DQUOTE, " ", "&", " ", DQUOTE>>

Inputs == StringsUpTo(MaxLen) \cup {Crafted}

----------------------------------------------------------------------------
\* String.prototype.replace(/c/g, rep) for a one-character pattern c: every
\* occurrence of c in s, left to right, is replaced by rep; the replacement
\* text is not rescanned.
RECURSIVE replace(_, _, _)
replace(s, c, rep) ==
    IF s = << >> THEN << >>
    ELSE (IF Head(s) = c THEN rep ELSE <<Head(s)>>) \o replace(Tail(s), c, rep)

\* sanitizeForAppleScript with the backslash replacement applied last
\* instead of first.
sanitizeBackslashLast(input) ==
    IF input = << >> THEN << >>
    ELSE LET s1 == replace(input, DQUOTE, <<BACKSLASH, DQUOTE>>)
             s2 == replace(s1, SQUOTE, <<SQUOTE, DQUOTE, SQUOTE, DQUOTE, SQUOTE>>)
             s3 == replace(s2, LF, <<BACKSLASH, "n">>)
             s4 == replace(s3, CR, <<BACKSLASH, "r">>)
             s5 == replace(s4, TAB, <<BACKSLASH, "t">>)
         IN  replace(s5, BACKSLASH, <<BACKSLASH, BACKSLASH>>)

\* sanitizeForAppleScript: `if (!input) return ''`, then the six replace
\* calls chained in the order of the source.
sanitizeForAppleScript(input) ==
    IF input = << >> THEN << >>
    ELSE LET s1 == replace(input, BACKSLASH, <<BACKSLASH, BACKSLASH>>)
             s2 == replace(s1, DQUOTE, <<BACKSLASH, DQUOTE>>)
             s3 == replace(s2, SQUOTE, <<SQUOTE, DQUOTE, SQUOTE, DQUOTE, SQUOTE>>)
             s4 == replace(s3, LF, <<BACKSLASH, "n">>)
             s5 == replace(s4, CR, <<BACKSLASH, "r">>)
         IN  replace(s5, TAB, <<BACKSLASH, "t">>)

\* The line of moveNote's command that holds the folder name in a string
\* literal:   if name of aFolder is "${sanitizedFolder}" then
\* The words around the literal are abbreviated; the two delimiters are kept.
TemplatePrefix == <<"i", "s", " ", DQUOTE>>
TemplateSuffix == <<DQUOTE, " ", "t", "h", "e", "n">>
moveScriptLine(sanitizedFolder) == TemplatePrefix \o sanitizedFolder \o TemplateSuffix

----------------------------------------------------------------------------
\* The executor, runAppleScript: values and pure parts.

\* the character U+0000, which spawn() refuses in an argument
NUL == "NUL"

\* result code of a child that was terminated by a signal: the 'exit' event
\* carries (null, signal); every integer other than the real exit codes will do
null == 0 - 1

\* exit codes a child ends with on its own
ExitCodes == {0, 1}

\* String(code) inside the template literal of the fallback message
toText(code) ==
    CASE code = 0 -> "0"
      [] code = 1 -> "1"
      [] code = null -> "null"

\* command texts handed to the executor: an ordinary one and one with U+0000
Scripts == {<<"t", "e", "l", "l">>, <<"t", NUL, "l">>}

\* chunks the child may write
StdoutChunks == {<<"a">>, <<" ">>, <<LF, "b">>}
StderrChunks == {<<"e", " ">>, <<" ">>}

WhiteSpace == {" ", TAB, LF, CR}

Range(s) == {s[i] : i \in 1..Len(s)}

\* the options object of the spawn call without a timeout
spawnOptionsNoTimeout == [timeout |-> 0]

\* the options object of the spawn call: { timeout: 10000 }
spawnOptions == [timeout |-> 10000]

\* the argument vector with the command text cut into one argument per
\* character
spawnArgsSplit(s) == <<"-e">> \o s

\* the argument vector of the spawn call: ['-e', script]
spawnArgs(s) == <<"-e", s>>

\* what spawn('osascript', ['-e', script], options) does with the script:
\* an argument holding U+0000 makes spawn throw before any process exists;
\* otherwise a child object is returned, the launch having worked or having
\* failed with an errno reported by a later 'error' event
spawnResults(s) ==
    IF NUL \in Range(s) THEN {"throw"} ELSE {"ok", "ENOENT", "EACCES"}

\* Buffer.concat(list).toString('utf8')
RECURSIVE concat(_)
concat(list) == IF list = << >> THEN << >> ELSE Head(list) \o concat(Tail(list))

RECURSIVE trimStart(_)
trimStart(s) ==
    IF s # << >> /\ Head(s) \in WhiteSpace THEN trimStart(Tail(s)) ELSE s

RECURSIVE trimEnd(_)
trimEnd(s) ==
    IF s # << >> /\ s[Len(s)] \in WhiteSpace THEN trimEnd(SubSeq(s, 1, Len(s) - 1)) ELSE s

\* String.prototype.trim
trim(s) == trimEnd(trimStart(s))

\* the 'error' handler's value with the fallback text of the 'exit' handler
errorValueAsExit(message) ==
    [success |-> FALSE, output |-> << >>,
     error |-> <<"AppleScript exited with code ", "null">>]

\* the value the 'error' handler passes to resolve
errorValue(message) ==
    [success |-> FALSE, output |-> << >>,
     error |-> <<"Failed to execute AppleScript: ">> \o message]

\* the 'exit' handler's value without the trim of the captured output
exitValueUntrimmed(code, out, err) ==
    LET output == concat(out)
        errorOutput == concat(err)
    IN  IF code = 0
        THEN [success |-> TRUE, output |-> output]
        ELSE [success |-> FALSE, output |-> << >>,
              error |-> IF errorOutput # << >> THEN errorOutput
                        ELSE <<"AppleScript exited with code ", toText(code)>>]

\* the value the 'exit' handler passes to resolve
exitValue(code, out, err) ==
    LET output == trim(concat(out))
        errorOutput == trim(concat(err))
    IN  IF code = 0
        THEN [success |-> TRUE, output |-> output]
        ELSE [success |-> FALSE, output |-> << >>,
              error |-> IF errorOutput # << >> THEN errorOutput
                        ELSE <<"AppleScript exited with code ", toText(code)>>]

\* resolve(value) of the promise: the first call settles it, later calls
\* have no effect
resolve(value) ==
    /\ resolveArgs' = Append(resolveArgs, value)
    /\ IF promise = "pending"
       THEN /\ promise' = "resolved"
            /\ delivered' = Append(delivered, value)
       ELSE UNCHANGED <<promise, delivered>>

----------------------------------------------------------------------------
\* The executor: actions.

ExecIdle ==
    /\ promise = "none"
    /\ delivered = << >>
    /\ resolveArgs = << >>
    /\ spawned = << >>
    /\ child = "none"
    /\ spawnError = "none"
    /\ hangs = FALSE
    /\ chunks = << >>
    /\ errorChunks = << >>
    /\ stdoutPipe = << >>
    /\ stderrPipe = << >>
    /\ exitCode = null
    /\ exitDelivered = FALSE
    /\ errorsEmitted = 0
    /\ timerArmed = FALSE
    /\ elapsed = 0

SanOff ==
    /\ raw = << >>
    /\ sanitized = << >>
    /\ command = << >>
    /\ sanPc = "off"

Invocations == 1..MaxInvocations

ConcOff ==
    /\ cState = [i \in Invocations |-> "none"]
    /\ cBuf = [i \in Invocations |-> [chunks |-> << >>, errorChunks |-> << >>]]
    /\ cWrittenOut = [i \in Invocations |-> << >>]
    /\ cWrittenErr = [i \in Invocations |-> << >>]
    /\ cExitCode = [i \in Invocations |-> null]
    /\ cDelivered = [i \in Invocations |-> << >>]
    /\ cOverlap = FALSE

Tools == {"create-note", "search-notes", "get-note-content", "edit-note",
          "delete-note", "list-accounts", "list-folders", "move-note"}

\* new Map(): no entry
RateOff ==
    /\ requestCounts = << >>
    /\ now = 0
    /\ admittedAt = [t \in Tools |-> << >>]
    /\ rejectedAt = [t \in Tools |-> << >>]
    /\ opened = [t \in Tools |-> << >>]

ToolOff ==
    /\ tool = "none"
    /\ world = [folder |-> FALSE]
    /\ tPc = "off"
    /\ tTrace = << >>
    /\ tFates = << >>
    /\ tCommands = << >>
    /\ tActed = FALSE
    /\ tNotes = 0
    /\ tOutcomes = << >>
    /\ tResult = << >>
    /\ tResponse = << >>

BurstOff ==
    /\ bTool = "none"
    /\ bWorld = [folder |-> FALSE]
    /\ bCalls = << >>
    /\ bVerdict = "none"
    /\ bSpawned = 0
    /\ bSecond = 0

\* everything outside the list decoding, the rate limiter and the handlers
\* in its state after construction
BaseOff ==
    /\ script = << >>
    /\ ExecIdle
    /\ SanOff
    /\ ConcOff

ListOff ==
    /\ listOp = "none"
    /\ listOutput = << >>
    /\ listItems = << >>
    /\ listPc = "off"

ExecInit ==
    /\ script \in Scripts
    /\ ExecIdle
    /\ SanOff
    /\ ConcOff
    /\ ListOff
    /\ RateOff
    /\ ToolOff
    /\ BurstOff

\* runAppleScript(script): the promise executor runs to its end; spawn either
\* throws (the executor throws, the promise is rejected) or returns a child on
\* which the four handlers are registered
RunAppleScript ==
    /\ promise = "none"
    /\ \E r \in spawnResults(script), h \in BOOLEAN :
        /\ promise' = IF r = "throw" THEN "rejected" ELSE "pending"
        /\ spawned' = IF r = "throw" THEN spawned
                      ELSE Append(spawned, [file |-> "osascript",
                                            args |-> spawnArgs(script),
                                            options |-> spawnOptions])
        /\ child' = CASE r = "throw" -> "none"
                      [] r = "ok" -> "running"
                      [] OTHER -> "spawnfail"
        /\ spawnError' = IF r \in {"ENOENT", "EACCES"} THEN r ELSE "none"
        /\ hangs' = (r = "ok" /\ h)
        /\ timerArmed' = (r = "ok" /\ spawnOptions.timeout > 0)
    /\ chunks' = << >>
    /\ errorChunks' = << >>
    /\ UNCHANGED <<script, delivered, resolveArgs, stdoutPipe, stderrPipe, exitCode,
                   exitDelivered, errorsEmitted, elapsed>>
    /\ UNCHANGED restOfExec

\* the child writes a chunk to its standard output
ChildWritesStdout ==
    /\ child = "running"
    /\ Len(chunks) + Len(stdoutPipe) < MaxChunks
    /\ \E c \in StdoutChunks : stdoutPipe' = Append(stdoutPipe, c)
    /\ UNCHANGED <<script, promise, delivered, resolveArgs, spawned, child, spawnError,
                   hangs, chunks, errorChunks, stderrPipe, exitCode, exitDelivered,
                   errorsEmitted, timerArmed, elapsed>>
    /\ UNCHANGED restOfExec

\* the child writes a chunk to its standard error
ChildWritesStderr ==
    /\ child = "running"
    /\ Len(errorChunks) + Len(stderrPipe) < MaxErrChunks
    /\ \E c \in StderrChunks : stderrPipe' = Append(stderrPipe, c)
    /\ UNCHANGED <<script, promise, delivered, resolveArgs, spawned, child, spawnError,
                   hangs, chunks, errorChunks, stdoutPipe, exitCode, exitDelivered,
                   errorsEmitted, timerArmed, elapsed>>
    /\ UNCHANGED restOfExec

\* child.stdout.on('data', chunk => chunks.push(chunk)); the stream stays
\* open after 'exit' until it is drained
StdoutData ==
    /\ stdoutPipe # << >>
    /\ chunks' = Append(chunks, Head(stdoutPipe))
    /\ stdoutPipe' = Tail(stdoutPipe)
    /\ UNCHANGED <<script, promise, delivered, resolveArgs, spawned, child, spawnError,
                   hangs, errorChunks, stderrPipe, exitCode, exitDelivered,
                   errorsEmitted, timerArmed, elapsed>>
    /\ UNCHANGED restOfExec

\* child.stderr.on('data', chunk => errorChunks.push(chunk))
StderrData ==
    /\ stderrPipe # << >>
    /\ errorChunks' = Append(errorChunks, Head(stderrPipe))
    /\ stderrPipe' = Tail(stderrPipe)
    /\ UNCHANGED <<script, promise, delivered, resolveArgs, spawned, child, spawnError,
                   hangs, chunks, stdoutPipe, exitCode, exitDelivered,
                   errorsEmitted, timerArmed, elapsed>>
    /\ UNCHANGED restOfExec

\* the child ends on its own with an exit code
ChildExits ==
    /\ child = "running"
    /\ ~hangs
    /\ \E code \in ExitCodes : exitCode' = code
    /\ child' = "exited"
    /\ UNCHANGED <<script, promise, delivered, resolveArgs, spawned, spawnError, hangs,
                   chunks, errorChunks, stdoutPipe, stderrPipe, exitDelivered,
                   errorsEmitted, timerArmed, elapsed>>
    /\ UNCHANGED restOfExec

\* the timer of the timeout option fires and calls child.kill('SIGTERM'):
\* the signal ends a running child, or kill fails and 'error' is emitted (the
\* 'error' handler runs); a child that has already ended is left alone
TimerFires ==
    /\ timerArmed
    /\ elapsed >= spawnOptions.timeout
    /\ timerArmed' = FALSE
    /\ \/ /\ child = "running"
          /\ child' = "exited"
          /\ exitCode' = null
          /\ UNCHANGED <<promise, delivered, resolveArgs, errorsEmitted>>
       \/ /\ child = "running"
          /\ resolve(errorValue(<<"kill EPERM">>))
          /\ errorsEmitted' = errorsEmitted + 1
          /\ UNCHANGED <<child, exitCode>>
       \/ /\ child = "exited"
          /\ UNCHANGED <<child, exitCode, promise, delivered, resolveArgs, errorsEmitted>>
    /\ UNCHANGED <<script, spawned, spawnError, hangs, chunks, errorChunks, stdoutPipe,
                   stderrPipe, exitDelivered, elapsed>>
    /\ UNCHANGED restOfExec

\* child.on('exit', code => ...): emitted once the child has ended; the
\* timer is cleared
ExitEvent ==
    /\ child = "exited"
    /\ ~exitDelivered
    /\ exitDelivered' = TRUE
    /\ timerArmed' = FALSE
    /\ resolve(exitValue(exitCode, chunks, errorChunks))
    /\ UNCHANGED <<script, spawned, child, spawnError, hangs, chunks, errorChunks,
                   stdoutPipe, stderrPipe, exitCode, errorsEmitted, elapsed>>
    /\ UNCHANGED restOfExec

\* child.on('error', error => ...) for a failed launch: 'error' is emitted on
\* the next tick and no 'exit' follows
SpawnErrorEvent ==
    /\ child = "spawnfail"
    /\ errorsEmitted = 0
    /\ errorsEmitted' = 1
    /\ resolve(errorValue(<<"spawn osascript ", spawnError>>))
    /\ UNCHANGED <<script, spawned, child, spawnError, hangs, chunks, errorChunks,
                   stdoutPipe, stderrPipe, exitCode, exitDelivered, timerArmed, elapsed>>
    /\ UNCHANGED restOfExec

\* time passes
Tick ==
    /\ promise # "none"
    /\ elapsed < MaxTicks * TickMs
    /\ elapsed' = elapsed + TickMs
    /\ UNCHANGED <<script, promise, delivered, resolveArgs, spawned, child, spawnError,
                   hangs, chunks, errorChunks, stdoutPipe, stderrPipe, exitCode,
                   exitDelivered, errorsEmitted, timerArmed>>
    /\ UNCHANGED restOfExec

ExecNext ==
    \/ RunAppleScript
    \/ ChildWritesStdout
    \/ ChildWritesStderr
    \/ StdoutData
    \/ StderrData
    \/ ChildExits
    \/ TimerFires
    \/ ExitEvent
    \/ SpawnErrorEvent
    \/ Tick

ExecSpec == ExecInit /\ [][ExecNext]_vars

\* The event loop runs a due timer and emits a pending event, and time
\* passes.
ExecLive ==
    /\ ExecSpec
    /\ WF_vars(Tick)
    /\ WF_vars(TimerFires)
    /\ WF_vars(ExitEvent)
    /\ WF_vars(SpawnErrorEvent)

----------------------------------------------------------------------------
\* Sanitizer specification: an input is drawn, sanitized, and embedded.

SanInit ==
    /\ raw \in Inputs
    /\ sanitized = << >>
    /\ command = << >>
    /\ sanPc = "start"
    /\ script = << >>
    /\ ExecIdle
    /\ ConcOff
    /\ ListOff
    /\ RateOff
    /\ ToolOff
    /\ BurstOff

\* const sanitizedFolder = sanitizeForAppleScript(targetFolderName)
Sanitize ==
    /\ sanPc = "start"
    /\ sanitized' = sanitizeForAppleScript(raw)
    /\ sanPc' = "sanitized"
    /\ UNCHANGED <<raw, command>>
    /\ UNCHANGED restOfSan

\* the template literal is evaluated with the sanitized text in place
BuildCommand ==
    /\ sanPc = "sanitized"
    /\ command' = moveScriptLine(sanitized)
    /\ sanPc' = "built"
    /\ UNCHANGED <<raw, sanitized>>
    /\ UNCHANGED restOfSan

SanNext == Sanitize \/ BuildCommand

SanSpec == SanInit /\ [][SanNext]_vars

----------------------------------------------------------------------------
\* Measuring devices of the sanitizer's properties: the reading of a command
\* text by the interpreter's lexer (a string literal opens at a double quote,
\* a backslash inside it takes the next character with it, the next bare
\* double quote closes it; a raw line break outside a literal ends a
\* statement).

\* number of consecutive backslashes of s that end at position i
RECURSIVE BackslashRun(_, _)
BackslashRun(s, i) ==
    IF i >= 1 /\ s[i] = BACKSLASH THEN 1 + BackslashRun(s, i - 1) ELSE 0

RECURSIVE Scan(_, _, _, _)
Scan(s, inLiteral, literals, statements) ==
    IF s = << >>
    THEN [literals |-> literals, statements |-> statements, open |-> inLiteral]
    ELSE IF inLiteral
         THEN IF Head(s) = BACKSLASH /\ Len(s) >= 2
              THEN Scan(Tail(Tail(s)), TRUE, literals, statements)
              ELSE Scan(Tail(s), Head(s) # DQUOTE, literals, statements)
         ELSE IF Head(s) = DQUOTE
              THEN Scan(Tail(s), TRUE, literals + 1, statements)
              ELSE Scan(Tail(s), FALSE, literals,
                        IF Head(s) \in {LF, CR} THEN statements + 1 ELSE statements)

\* what the statement-counting interpreter double reports of a command
Structure(cmd) == Scan(cmd, FALSE, 0, 1)

\* the character an escape pair \c stands for inside a literal
escapedChar(c) ==
    CASE c = "n" -> LF
      [] c = "r" -> CR
      [] c = "t" -> TAB
      [] OTHER -> c

\* the value of a string literal whose content starts at s: escape pairs are
\* reversed and the literal ends at the first bare double quote
RECURSIVE readLiteral(_)
readLiteral(s) ==
    IF s = << >> THEN << >>
    ELSE IF Head(s) = BACKSLASH /\ Len(s) >= 2
         THEN <<escapedChar(s[2])>> \o readLiteral(Tail(Tail(s)))
         ELSE IF Head(s) = DQUOTE THEN << >>
              ELSE <<Head(s)>> \o readLiteral(Tail(s))

\* the escape forms of the sanitizer reversed as a code: the five-character
\* single-quote form is read back as one single quote
RECURSIVE reverseForms(_)
reverseForms(s) ==
    IF s = << >> THEN << >>
    ELSE IF Head(s) = BACKSLASH /\ Len(s) >= 2
         THEN <<escapedChar(s[2])>> \o reverseForms(Tail(Tail(s)))
         ELSE IF Len(s) >= 5 /\ SubSeq(s, 1, 5) = <<SQUOTE, DQUOTE, SQUOTE, DQUOTE, SQUOTE>>
              THEN <<SQUOTE>> \o reverseForms(SubSeq(s, 6, Len(s)))
              ELSE <<Head(s)>> \o reverseForms(Tail(s))

\* the replacement text of one input character
charForm(c) ==
    CASE c = BACKSLASH -> <<BACKSLASH, BACKSLASH>>
      [] c = DQUOTE -> <<BACKSLASH, DQUOTE>>
      [] c = SQUOTE -> <<SQUOTE, DQUOTE, SQUOTE, DQUOTE, SQUOTE>>
      [] c = LF -> <<BACKSLASH, "n">>
      [] c = CR -> <<BACKSLASH, "r">>
      [] c = TAB -> <<BACKSLASH, "t">>
      [] OTHER -> <<c>>

RECURSIVE perChar(_)
perChar(s) == IF s = << >> THEN << >> ELSE charForm(Head(s)) \o perChar(Tail(s))

RECURSIVE Count(_, _)
Count(s, c) ==
    IF s = << >> THEN 0 ELSE (IF Head(s) = c THEN 1 ELSE 0) + Count(Tail(s), c)

----------------------------------------------------------------------------
\* Claims about the sanitizer (checked under SanSpec).

\* C1: every double quote of sanitizeForAppleScript(s) is immediately
\* preceded by an odd number of backslashes, so the literal "<result>" is
\* never closed before its final delimiter.
C1_EveryQuoteEscaped ==
    sanPc # "start" =>
        \A i \in 1..Len(sanitized) :
            sanitized[i] = DQUOTE => BackslashRun(sanitized, i - 1) % 2 = 1

\* C2: the command with the sanitized text in its literal position has the
\* same number of statements and of string literals as the same template
\* with the empty string in that position.
C2_SameStructureAsEmpty ==
    sanPc = "built" => Structure(command) = Structure(moveScriptLine(<< >>))

\* C3: the result is each input character replaced by its own form, in
\* place: every input backslash is doubled exactly once, no backslash a later
\* replacement introduces is doubled, the empty input gives the empty
\* string, and an input without special characters is returned unchanged.
C3_OrderedReplacements ==
    sanPc # "start" =>
        /\ sanitized = perChar(raw)
        /\ Count(sanitized, BACKSLASH) =
               2 * Count(raw, BACKSLASH) + Count(raw, DQUOTE) + Count(raw, LF)
                   + Count(raw, CR) + Count(raw, TAB)
        /\ (raw = << >> => sanitized = << >>)
        /\ ((\A i \in 1..Len(raw) : raw[i] \notin Special) => sanitized = raw)

\* C3 witness: a backslash followed by a line feed has been sanitized; the
\* backslash of the line feed's escape is not doubled.
C3_Witness ==
    /\ sanPc = "sanitized"
    /\ raw = <<BACKSLASH, LF>>
    /\ sanitized = <<BACKSLASH, BACKSLASH, BACKSLASH, "n">>

\* C4: read as the content of a string literal, with the escape forms
\* reversed, sanitizeForAppleScript(s) is exactly s.
C4_RoundTrip ==
    sanPc # "start" => readLiteral(sanitized) = raw

\* Side result used with C4: read as a code (the single-quote form as one
\* codeword) the result decodes to the input, so sanitizeForAppleScript is
\* injective on the enumerated inputs.
SanitizeHasLeftInverse ==
    sanPc # "start" => reverseForms(sanitized) = raw

----------------------------------------------------------------------------
\* Measuring devices of the executor's properties.

\* the bytes of a list of chunks, in order
Joined(list) ==
    LET total[k \in 0..Len(list)] == IF k = 0 THEN << >> ELSE total[k - 1] \o list[k]
    IN  total[Len(list)]

\* t is s without its leading and trailing white space
IsTrimOf(t, s) ==
    /\ t # << >> => (t[1] \notin WhiteSpace /\ t[Len(t)] \notin WhiteSpace)
    /\ \E i \in 0..Len(s) :
        /\ i + Len(t) <= Len(s)
        /\ SubSeq(s, i + 1, i + Len(t)) = t
        /\ \A k \in 1..Len(s) : (k <= i \/ k > i + Len(t)) => s[k] \in WhiteSpace

\* v is the outcome the exit mapping prescribes for an exit with this code,
\* these captured stdout chunks and these captured stderr chunks
IsExitOutcome(v, code, out, err) ==
    IF code = 0
    THEN /\ DOMAIN v = {"success", "output"}
         /\ v.success = TRUE
         /\ IsTrimOf(v.output, Joined(out))
    ELSE /\ DOMAIN v = {"success", "output", "error"}
         /\ v.success = FALSE
         /\ v.output = << >>
         /\ IF Range(Joined(err)) \subseteq WhiteSpace
            THEN v.error = <<"AppleScript exited with code ", toText(code)>>
            ELSE IsTrimOf(v.error, Joined(err))

----------------------------------------------------------------------------
\* Claims about the executor (checked under ExecSpec; C6 under ExecLive).

\* C5: the 'exit' handler maps code 0 to success with the trimmed captured
\* stdout and no error field, and any other code (null included) to failure
\* with empty output and the trimmed captured stderr or, if that is empty,
\* the fallback message naming the code; this value is the outcome of the
\* promise that the exit event settles.
C5_ExitMapping ==
    [][(~exitDelivered /\ exitDelivered') =>
          /\ resolveArgs' # << >>
          /\ IsExitOutcome(resolveArgs'[Len(resolveArgs')], exitCode, chunks, errorChunks)
          /\ promise = "pending" =>
                /\ promise' = "resolved"
                /\ delivered' = <<resolveArgs'[Len(resolveArgs')]>>]_vars

\* C5 witness: exit with code 0 settled the promise; the captured output
\* had white space to trim.
C5_Witness ==
    /\ exitDelivered
    /\ exitCode = 0
    /\ errorsEmitted = 0
    /\ chunks = << <<" ">>, <<LF, "b">> >>
    /\ delivered = <<[success |-> TRUE, output |-> <<"b">>]>>

\* C6: for a child that never exits on its own the promise is eventually
\* resolved with success = false, and the kill that ends the child does not
\* come before 10000 ms have passed.
C6_TimeoutFails ==
    /\ (child = "running" /\ hangs) ~>
           (promise = "resolved" /\ Len(delivered) = 1 /\ delivered[1].success = FALSE)
    /\ [][(child = "running" /\ child' = "exited" /\ exitCode' = null) =>
             elapsed >= 10000]_vars

\* C6 witness: a hanging child was killed after the timeout and its exit
\* with the null code was reported as a failure.
C6_Witness ==
    /\ hangs
    /\ exitDelivered
    /\ exitCode = null
    /\ elapsed >= 10000
    /\ delivered = <<[success |-> FALSE, output |-> << >>,
                      error |-> <<"AppleScript exited with code ", "null">>]>>

\* C7: the promise returned by runAppleScript is never rejected.
C7_NeverRejects ==
    promise # "rejected"

\* C8: once the call has settled, exactly one child process was spawned and
\* exactly one outcome was delivered, the value of the first 'error' or 'exit'
\* event handled.
C8_ExactlyOneOutcome ==
    promise \in {"resolved", "rejected"} =>
        /\ Len(spawned) = 1
        /\ Len(delivered) = 1
        /\ resolveArgs # << >>
        /\ delivered[1] = resolveArgs[1]

\* Side result used with C8: whenever a handler has called resolve, the one
\* delivered outcome is the value of the first call, and no second process
\* is started.
FirstEventFixesOutcome ==
    /\ Len(spawned) <= 1
    /\ Len(delivered) <= 1
    /\ resolveArgs # << >> => (promise = "resolved" /\ delivered = <<resolveArgs[1]>>)

\* C9: after the 'error' event of a failed launch the outcome is a failure
\* with empty output whose error text describes the launch failure and is
\* not the exit-code fallback message.
C9_SpawnFailureOutcome ==
    (child = "spawnfail" /\ errorsEmitted > 0) =>
        /\ promise = "resolved"
        /\ delivered = <<[success |-> FALSE, output |-> << >>,
                          error |-> <<"Failed to execute AppleScript: ",
                                      "spawn osascript ", spawnError>>]>>
        /\ delivered[1].error[1] # "AppleScript exited with code "

\* C9 witness: the interpreter binary was missing and the promise is settled.
C9_Witness ==
    /\ child = "spawnfail"
    /\ spawnError = "ENOENT"
    /\ errorsEmitted = 1
    /\ promise = "resolved"

\* C10: for a child that exited with code 0, the output of the outcome is the
\* trimmed concatenation of every stdout chunk the child produced.
C10_AllChunksInOutcome ==
    (exitDelivered /\ exitCode = 0 /\ promise = "resolved" /\ delivered[1].success) =>
        IsTrimOf(delivered[1].output, Joined(chunks \o stdoutPipe))

\* C11: every process started is osascript with the argument vector -e
\* followed by the caller's whole command text as one argument, with no
\* shell option and with a timeout of exactly 10000 ms.
C11_SpawnArguments ==
    \A i \in 1..Len(spawned) :
        /\ spawned[i].file = "osascript"
        /\ Len(spawned[i].args) = 2
        /\ spawned[i].args[1] = "-e"
        /\ spawned[i].args[2] = script
        /\ DOMAIN spawned[i].options = {"timeout"}
        /\ spawned[i].options.timeout = 10000

\* C11 witness: a process has been started for the command text.
C11_Witness ==
    /\ Len(spawned) = 1
    /\ child = "running"
    /\ script = <<"t", "e", "l", "l">>

----------------------------------------------------------------------------
\* Concurrent invocations of runAppleScript.  Each call runs the promise
\* executor anew, so each has its own child and its own two arrays; the
\* handlers of all children run on one event loop, one event at a time.

\* every invocation pushing to one pair of arrays
bufferShared(i) == 1

\* the arrays an invocation's handlers push to and read: the ones declared
\* inside its own promise executor
bufferOf(i) == i

\* what child i writes (each child's text is its own)
childText(i) ==
    CASE i = 1 -> "p"
      [] i = 2 -> "q"
      [] OTHER -> "r"

ConcInit ==
    /\ ConcOff
    /\ ListOff
    /\ RateOff
    /\ ToolOff
    /\ BurstOff
    /\ script = << >>
    /\ ExecIdle
    /\ SanOff

othersRunning(i) == \E j \in Invocations \ {i} : cState[j] = "running"

ConcRun(i) ==
    /\ cState[i] = "none"
    /\ \E r \in {"running", "spawnfail"} : cState' = [cState EXCEPT ![i] = r]
    /\ UNCHANGED <<cBuf, cWrittenOut, cWrittenErr, cExitCode, cDelivered, cOverlap>>
    /\ UNCHANGED restOfConc

\* child.stdout.on('data', ...) of invocation i
ConcStdoutData(i) ==
    /\ cState[i] = "running"
    /\ Len(cWrittenOut[i]) + Len(cWrittenErr[i]) < MaxConcChunks
    /\ LET chunk == <<childText(i)>>
       IN  /\ cWrittenOut' = [cWrittenOut EXCEPT ![i] = Append(@, chunk)]
           /\ cBuf' = [cBuf EXCEPT ![bufferOf(i)].chunks = Append(@, chunk)]
    /\ cOverlap' = (cOverlap \/ othersRunning(i))
    /\ UNCHANGED <<cState, cWrittenErr, cExitCode, cDelivered>>
    /\ UNCHANGED restOfConc

\* child.stderr.on('data', ...) of invocation i
ConcStderrData(i) ==
    /\ cState[i] = "running"
    /\ Len(cWrittenOut[i]) + Len(cWrittenErr[i]) < MaxConcChunks
    /\ LET chunk == <<"!", childText(i)>>
       IN  /\ cWrittenErr' = [cWrittenErr EXCEPT ![i] = Append(@, chunk)]
           /\ cBuf' = [cBuf EXCEPT ![bufferOf(i)].errorChunks = Append(@, chunk)]
    /\ cOverlap' = (cOverlap \/ othersRunning(i))
    /\ UNCHANGED <<cState, cWrittenOut, cExitCode, cDelivered>>
    /\ UNCHANGED restOfConc

\* child.on('exit', ...) of invocation i
ConcExit(i) ==
    /\ cState[i] = "running"
    /\ \E code \in ExitCodes :
        /\ cExitCode' = [cExitCode EXCEPT ![i] = code]
        /\ cDelivered' = [cDelivered EXCEPT ![i] =
               Append(@, exitValue(code, cBuf[bufferOf(i)].chunks,
                                   cBuf[bufferOf(i)].errorChunks))]
    /\ cState' = [cState EXCEPT ![i] = "exited"]
    /\ cOverlap' = (cOverlap \/ othersRunning(i))
    /\ UNCHANGED <<cBuf, cWrittenOut, cWrittenErr>>
    /\ UNCHANGED restOfConc

\* child.on('error', ...) of invocation i
ConcError(i) ==
    /\ cState[i] = "spawnfail"
    /\ cState' = [cState EXCEPT ![i] = "failed"]
    /\ cDelivered' = [cDelivered EXCEPT ![i] =
           Append(@, errorValue(<<"spawn osascript ", "ENOENT">>))]
    /\ UNCHANGED <<cBuf, cWrittenOut, cWrittenErr, cExitCode, cOverlap>>
    /\ UNCHANGED restOfConc

ConcNext ==
    \E i \in Invocations :
        \/ ConcRun(i)
        \/ ConcStdoutData(i)
        \/ ConcStderrData(i)
        \/ ConcExit(i)
        \/ ConcError(i)

ConcSpec == ConcInit /\ [][ConcNext]_vars

\* the text of a CommandOutcome
outcomeText(o) ==
    Range(o.output) \cup (IF o.success THEN {} ELSE Range(o.error))

\* C12: under every interleaving of the events of concurrent children, each
\* invocation's outcome is the one its own child's chunks and exit or error
\* event give, and holds no chunk of another invocation.
C12_Isolated ==
    \A i \in Invocations :
        cDelivered[i] # << >> =>
            /\ Len(cDelivered[i]) = 1
            /\ cDelivered[i][1] =
                   IF cState[i] = "failed"
                   THEN errorValue(<<"spawn osascript ", "ENOENT">>)
                   ELSE exitValue(cExitCode[i], cWrittenOut[i], cWrittenErr[i])
            /\ \A j \in Invocations \ {i} :
                   childText(j) \notin outcomeText(cDelivered[i][1])

\* C12 witness: two children ran together, both wrote, both invocations
\* have their outcome.
C12_Witness ==
    /\ cOverlap
    /\ cDelivered[1] # << >> /\ cDelivered[2] # << >>
    /\ cWrittenOut[1] # << >>
    /\ cWrittenOut[2] # << >> \/ cWrittenErr[2] # << >>

----------------------------------------------------------------------------
\* Decoding of list outputs: searchNotes, getFolders, getAccounts.

\* String.prototype.split(',')
RECURSIVE split(_)
split(s) ==
    IF "," \notin Range(s) THEN <<s>>
    ELSE LET k == CHOOSE i \in 1..Len(s) :
                      s[i] = "," /\ \A j \in 1..(i - 1) : s[j] # ","
         IN  <<SubSeq(s, 1, k - 1)>> \o split(SubSeq(s, k + 1, Len(s)))

\* Boolean(x) of a string
truthy(x) == x # << >>

\* Array.prototype.map(x => x.trim())
mapTrim(list) == [i \in 1..Len(list) |-> trim(list[i])]

\* the titles of the notes searchNotes returns for a successful output
searchNotesTitles(output) ==
    IF output = << >> \/ trim(output) = << >> THEN << >>
    ELSE mapTrim(SelectSeq(split(output), truthy))

\* the names of the folders getFolders returns for a successful output
getFoldersNames(output) ==
    IF output = << >> \/ trim(output) = << >> THEN << >>
    ELSE SelectSeq(mapTrim(split(output)), truthy)

\* the names getAccounts returns for a successful output
getAccountsNames(output) == SelectSeq(mapTrim(split(output)), truthy)

ListOps == {"searchNotes", "getFolders", "getAccounts"}

ListAlphabet == {"a", ",", " "}

\* the outputs that are decoded: every text over ListAlphabet up to length k
RECURSIVE ListOutputs(_)
ListOutputs(k) ==
    IF k = 0 THEN {<< >>}
    ELSE LET shorter == ListOutputs(k - 1)
         IN  shorter \cup {Append(s, c) : s \in {t \in shorter : Len(t) = k - 1},
                                           c \in ListAlphabet}

ListInit ==
    /\ listOp \in ListOps
    /\ listOutput \in ListOutputs(MaxListLen)
    /\ listItems = << >>
    /\ listPc = "start"
    /\ script = << >>
    /\ ExecIdle
    /\ SanOff
    /\ ConcOff
    /\ RateOff
    /\ ToolOff
    /\ BurstOff

DecodeSearchNotes ==
    /\ listPc = "start" /\ listOp = "searchNotes"
    /\ listItems' = searchNotesTitles(listOutput)
    /\ listPc' = "done"
    /\ UNCHANGED <<listOp, listOutput>>
    /\ UNCHANGED restOfList

DecodeGetFolders ==
    /\ listPc = "start" /\ listOp = "getFolders"
    /\ listItems' = getFoldersNames(listOutput)
    /\ listPc' = "done"
    /\ UNCHANGED <<listOp, listOutput>>
    /\ UNCHANGED restOfList

DecodeGetAccounts ==
    /\ listPc = "start" /\ listOp = "getAccounts"
    /\ listItems' = getAccountsNames(listOutput)
    /\ listPc' = "done"
    /\ UNCHANGED <<listOp, listOutput>>
    /\ UNCHANGED restOfList

ListNext == DecodeSearchNotes \/ DecodeGetFolders \/ DecodeGetAccounts

ListSpec == ListInit /\ [][ListNext]_vars

\* C17: an empty or whitespace-only output decodes to the empty collection,
\* and every element returned for a comma-separated output is trimmed and
\* is not the empty string.
C17_ListDecoding ==
    listPc = "done" =>
        /\ (Range(listOutput) \subseteq WhiteSpace => listItems = << >>)
        /\ \A i \in 1..Len(listItems) :
               /\ listItems[i] # << >>
               /\ Head(listItems[i]) \notin WhiteSpace
               /\ listItems[i][Len(listItems[i])] \notin WhiteSpace

\* the part of C17 that getFolders and getAccounts meet
ListDecodingOfFoldersAndAccounts ==
    listOp # "searchNotes" => C17_ListDecoding

----------------------------------------------------------------------------
\* The rate limiter (index.ts).

RATE_LIMIT_WINDOW == 60000

MAX_REQUESTS_PER_WINDOW == 30

RateLimitMessage == <<"Rate limit exceeded. Please try again later.">>

\* a limiter that lets one request more pass in each window
atLimitOffByOne(count) == count > MAX_REQUESTS_PER_WINDOW

\* limit.count >= MAX_REQUESTS_PER_WINDOW
atLimit(count) == count >= MAX_REQUESTS_PER_WINDOW

\* checkRateLimit(toolName): which of its three exits is taken
rateVerdict(toolName) ==
    IF toolName \notin DOMAIN requestCounts \/ now > requestCounts[toolName].resetTime
    THEN "open"
    ELSE IF atLimit(requestCounts[toolName].count) THEN "throw" ELSE "count"

\* a limiter whose rejected calls start the window anew
requestCountsAfterRestart(toolName) ==
    IF rateVerdict(toolName) = "count"
    THEN [requestCounts EXCEPT ![toolName].count = @ + 1]
    ELSE [k \in DOMAIN requestCounts \cup {toolName} |->
             IF k = toolName
             THEN [count |-> IF rateVerdict(toolName) = "open" THEN 1
                             ELSE requestCounts[k].count,
                   resetTime |-> now + RATE_LIMIT_WINDOW]
             ELSE requestCounts[k]]

\* checkRateLimit(toolName): the map it leaves
requestCountsAfter(toolName) ==
    CASE rateVerdict(toolName) = "open" ->
             [k \in DOMAIN requestCounts \cup {toolName} |->
                 IF k = toolName
                 THEN [count |-> 1, resetTime |-> now + RATE_LIMIT_WINDOW]
                 ELSE requestCounts[k]]
      [] rateVerdict(toolName) = "throw" -> requestCounts
      [] OTHER -> [requestCounts EXCEPT ![toolName].count = @ + 1]

----------------------------------------------------------------------------
\* The interpreter running the commands of the manager
\* (appleNotesManager.ts).  A run is the exit code and what was printed.

Returning(text) == [code |-> 0, out |-> <<text \o <<LF>>>>, err |-> << >>]

Failing(text) == [code |-> 1, out |-> << >>, err |-> <<text \o <<LF>>>>]

\* createNote with a folder: the folder is looked up, then the note is made
createInFolderRun(w) ==
    IF w.folderExists THEN Returning(<<"created">>) ELSE Returning(<<"folder not found">>)

\* createNote without a folder, and its account-scoped fallback
createRun(w) == Returning(<<"created">>)

\* get body of note "...": a note that does not exist is an execution error
getBodyRun(w) ==
    IF w.noteExists THEN Returning(w.body)
    ELSE Failing(<<"execution error: Notes got an error: Can't get note. (-1728)">>)

\* editNote and deleteNote: the loop over every note, then the sentinel
findNoteRun(w) ==
    IF w.noteExists THEN Returning(<<"success">>) ELSE Returning(<<"not found">>)

\* the command of moveNote with the note looked up before the folder
moveRunNoteFirst(w) ==
    IF ~w.noteExists THEN Returning(<<"note not found">>)
    ELSE IF ~w.folderExists THEN Returning(<<"folder not found">>)
    ELSE Returning(<<"success">>)

\* moveNote: the folder is looked up first and its absence returned at once
moveRun(w) ==
    IF ~w.folderExists THEN Returning(<<"folder not found">>)
    ELSE IF w.noteExists THEN Returning(<<"success">>)
    ELSE Returning(<<"note not found">>)

\* searchNotes, getFolders, getAccounts: the list is printed
listRun(w) == Returning(w.list)

\* the command text a manager operation hands to runAppleScript: n is the
\* number of outcomes it has received
commandOf(t, w, n) ==
    CASE t = "create-note" ->
             IF n = 1 THEN "createInAccount"
             ELSE IF w.folder THEN "createInFolder" ELSE "createSimple"
      [] t = "search-notes" -> "search"
      [] t = "get-note-content" -> "getBody"
      [] t = "edit-note" -> "edit"
      [] t = "delete-note" -> "delete"
      [] t = "list-accounts" -> "accounts"
      [] t = "list-folders" -> "folders"
      [] t = "move-note" -> "move"

interpret(cmd, w) ==
    CASE cmd = "createInFolder" -> createInFolderRun(w)
      [] cmd \in {"createSimple", "createInAccount"} -> createRun(w)
      [] cmd = "getBody" -> getBodyRun(w)
      [] cmd \in {"edit", "delete"} -> findNoteRun(w)
      [] cmd = "move" -> moveRun(w)
      [] OTHER -> listRun(w)

\* how a started process goes: the interpreter runs the command to its end,
\* the interpreter fails on it, the launch fails, the timeout kills it
Fates == {"ran", "scriptError", "ENOENT", "timeout"}

\* the CommandOutcome runAppleScript resolves with
outcomeOf(fate, cmd, w) ==
    CASE fate = "ran" ->
             exitValue(interpret(cmd, w).code, interpret(cmd, w).out, interpret(cmd, w).err)
      [] fate = "scriptError" ->
             exitValue(1, << >>, <<<<"execution error: Not authorized. (-1743)", LF>>>>)
      [] fate = "ENOENT" -> errorValue(<<"spawn osascript ", "ENOENT">>)
      [] fate = "timeout" -> exitValue(null, << >>, << >>)

----------------------------------------------------------------------------
\* The manager operations: what each makes of a CommandOutcome
\* (appleNotesManager.ts).

\* throw new Error(message)
Throw(message) == [how |-> "throw", message |-> message]

\* return { success: false, error }
Refused(error) == [how |-> "return", success |-> FALSE, error |-> error]

\* return { success: true, ... }
Done == [how |-> "return", success |-> TRUE, error |-> << >>]

\* createNote running the account-scoped command after every failed first
\* command, with or without a folder
createNoteFirstAnyFallback(folder, result) ==
    IF result.output = <<"folder not found">>
    THEN Throw(<<"Specified folder not found">>)
    ELSE IF ~result.success THEN [how |-> "fallback"]
    ELSE [how |-> "return", value |-> "note"]

\* createNote after its first command; "fallback" stands for the branch
\* that runs the account-scoped command
createNoteFirst(folder, result) ==
    IF result.output = <<"folder not found">>
    THEN Throw(<<"Specified folder not found">>)
    ELSE IF ~result.success /\ ~folder THEN [how |-> "fallback"]
    ELSE IF ~result.success THEN Throw(<<"Failed to create note">>)
    ELSE [how |-> "return", value |-> "note"]

\* createNote after the account-scoped command
createNoteFallback(accountResult) ==
    IF ~accountResult.success THEN Throw(<<"Failed to create note">>)
    ELSE [how |-> "return", value |-> "note"]

searchNotesDecode(result) ==
    IF ~result.success THEN Throw(<<"Failed to search notes">>)
    ELSE [how |-> "return", titles |-> searchNotesTitles(result.output)]

getNoteContentDecode(result) ==
    IF ~result.success THEN Throw(<<"Failed to get note content">>)
    ELSE [how |-> "return", content |-> result.output]

\* editNote without the test of success
editNoteDecodeNoCheck(editResult) ==
    IF editResult.output = <<"not found">> THEN Refused(<<"Note not found">>)
    ELSE Done

editNoteDecode(editResult) ==
    IF ~editResult.success THEN Refused(<<"Failed to update note">>)
    ELSE IF editResult.output = <<"not found">> THEN Refused(<<"Note not found">>)
    ELSE Done

\* deleteNote handing on the error text of the outcome
deleteNoteDecodeRaw(deleteResult) ==
    IF ~deleteResult.success THEN Refused(deleteResult.error)
    ELSE IF deleteResult.output = <<"not found">> THEN Refused(<<"Note not found">>)
    ELSE Done

deleteNoteDecode(deleteResult) ==
    IF ~deleteResult.success THEN Refused(<<"Failed to delete note">>)
    ELSE IF deleteResult.output = <<"not found">> THEN Refused(<<"Note not found">>)
    ELSE Done

getFoldersDecode(result) ==
    IF ~result.success THEN Throw(<<"Failed to get folders">>)
    ELSE [how |-> "return", names |-> getFoldersNames(result.output)]

getAccountsDecode(result) ==
    IF ~result.success THEN Throw(<<"Failed to get accounts">>)
    ELSE [how |-> "return", names |-> getAccountsNames(result.output)]

moveNoteDecode(result) ==
    IF ~result.success THEN Refused(<<"Failed to move note">>)
    ELSE IF result.output = <<"folder not found">> THEN Refused(<<"Target folder not found">>)
    ELSE IF result.output = <<"note not found">> THEN Refused(<<"Note not found">>)
    ELSE Done

\* what the operation behind tool t makes of its n-th outcome
decode(t, w, n, result) ==
    CASE t = "create-note" ->
             IF n = 1 THEN createNoteFirst(w.folder, result) ELSE createNoteFallback(result)
      [] t = "search-notes" -> searchNotesDecode(result)
      [] t = "get-note-content" -> getNoteContentDecode(result)
      [] t = "edit-note" -> editNoteDecode(result)
      [] t = "delete-note" -> deleteNoteDecode(result)
      [] t = "list-accounts" -> getAccountsDecode(result)
      [] t = "list-folders" -> getFoldersDecode(result)
      [] t = "move-note" -> moveNoteDecode(result)

----------------------------------------------------------------------------
\* The tool handlers (index.ts).

\* the literal of each handler's catch block
GenericText(t) ==
    CASE t = "create-note" -> <<"Failed to create note">>
      [] t = "search-notes" -> <<"Failed to search notes">>
      [] t = "get-note-content" -> <<"Failed to retrieve note">>
      [] t = "edit-note" -> <<"Failed to edit note">>
      [] t = "delete-note" -> <<"Failed to delete note">>
      [] t = "list-accounts" -> <<"Failed to list accounts">>
      [] t = "list-folders" -> <<"Failed to list folders">>
      [] t = "move-note" -> <<"Failed to move note">>

\* error.message.includes('Rate limit'), on the pieces of a message
includesRateLimit(message) == \E i \in 1..Len(message) : message[i] \in Range(RateLimitMessage)

\* a catch block that answers without the error flag
catchResponseNoFlag(t, e) == [isError |-> FALSE, text |-> GenericText(t)]

\* the catch block of handler t for a thrown Error e
catchResponse(t, e) ==
    [isError |-> TRUE,
     text |-> CASE t = "create-note" -> e.message
                [] t = "list-accounts" -> GenericText(t)
                [] OTHER -> IF includesRateLimit(e.message) THEN e.message
                            ELSE GenericText(t)]

\* the text before the items of a list response, then one piece for each
\* item
listed(head, items) == <<head>> \o concat(items)

\* what handler t returns for the value r of its manager operation
valueResponse(t, r) ==
    CASE t = "create-note" ->
             IF r.value # "note"
             THEN [isError |-> TRUE, text |-> <<"Failed to create note">>]
             ELSE [isError |-> FALSE, text |-> <<"Note created successfully">>]
      [] t = "search-notes" ->
             [isError |-> FALSE,
              text |-> IF Len(r.titles) # 0 THEN listed("Found notes:", r.titles)
                       ELSE <<"No notes found matching your query">>]
      [] t = "get-note-content" ->
             [isError |-> FALSE,
              text |-> IF r.content # << >> THEN r.content ELSE <<"Note not found">>]
      [] t = "list-accounts" ->
             [isError |-> FALSE, text |-> listed("Available accounts: ", r.names)]
      [] t = "list-folders" ->
             [isError |-> FALSE,
              text |-> IF Len(r.names) = 0 THEN <<"No folders found in the current account">>
                       ELSE listed("Folders:", r.names)]
      [] OTHER ->
             IF ~r.success
             THEN [isError |-> TRUE,
                   text |-> IF r.error # << >> THEN r.error ELSE GenericText(t)]
             ELSE [isError |-> FALSE, text |-> <<"Note has been ", t>>]

\* the response of handler t once its manager operation has ended with r
respond(t, r) == IF r.how = "throw" THEN catchResponse(t, r) ELSE valueResponse(t, r)

\* the tools whose handler calls checkRateLimit
RateLimited == Tools \ {"list-accounts"}

\* the operations whose command holds an argument that the schema lets
\* hold U+0000 (content, folder, targetFolder)
TakesAnyText == {"create-note", "move-note"}

\* the message of the TypeError spawn throws for an argument with U+0000
SpawnThrowMessage ==
    <<"The argument 'args[1]' must be a string without null bytes. Received ", "script">>

Lists == {<< >>, <<"a", ",", " ", "b">>}

Bodies == {<< >>, <<"<div>body</div>">>}

World(folder, folderExists, noteExists, nul, list, body) ==
    [folder |-> folder, folderExists |-> folderExists, noteExists |-> noteExists,
     nul |-> nul, list |-> list, body |-> body]

\* the requests to tool t: its arguments and the state of Notes they meet
Worlds(t) ==
    CASE t = "create-note" ->
             {w \in {World(f, e, FALSE, n, << >>, << >>) :
                         f \in BOOLEAN, e \in BOOLEAN, n \in BOOLEAN} :
                  w.folderExists => w.folder}
      [] t = "move-note" ->
             {World(TRUE, e, x, n, << >>, << >>) :
                  e \in BOOLEAN, x \in BOOLEAN, n \in BOOLEAN}
      [] t = "get-note-content" ->
             {World(FALSE, FALSE, x, FALSE, << >>, b) : x \in BOOLEAN, b \in Bodies}
      [] t \in {"edit-note", "delete-note"} ->
             {World(FALSE, FALSE, x, FALSE, << >>, << >>) : x \in BOOLEAN}
      [] OTHER ->
             {World(FALSE, FALSE, FALSE, FALSE, l, << >>) : l \in Lists}

\* the entries of requestCounts a request may meet: none, a window with one
\* admission left, a full window
Entries(t) ==
    {[k \in {} |-> 0]} \cup
    {[k \in {t} |-> [count |-> c, resetTime |-> RATE_LIMIT_WINDOW]] :
         c \in {MAX_REQUESTS_PER_WINDOW - 1, MAX_REQUESTS_PER_WINDOW}}

ToolInit ==
    /\ tool \in Tools
    /\ world \in Worlds(tool)
    /\ requestCounts \in Entries(tool)
    /\ now = 0
    /\ admittedAt = [t \in Tools |-> << >>]
    /\ rejectedAt = [t \in Tools |-> << >>]
    /\ opened = [t \in Tools |-> << >>]
    /\ tPc = "start"
    /\ tTrace = << >>
    /\ tFates = << >>
    /\ tCommands = << >>
    /\ tActed = FALSE
    /\ tNotes = 0
    /\ tOutcomes = << >>
    /\ tResult = << >>
    /\ tResponse = << >>
    /\ BaseOff
    /\ ListOff
    /\ BurstOff

\* the handler of tool t runs up to its first await: the rate limiter, if
\* the handler calls it, then the manager operation up to runAppleScript,
\* where spawn starts the process or throws
HandlerEnter(t) ==
    /\ tPc = "start" /\ tool = t
    /\ LET limited == t \in RateLimited
           verdict == IF limited THEN rateVerdict(t) ELSE "none"
           checked == IF ~limited THEN << >>
                      ELSE IF verdict = "throw" THEN <<"rejected">> ELSE <<"admitted">>
       IN  /\ requestCounts' = IF limited THEN requestCountsAfter(t) ELSE requestCounts
           /\ IF verdict = "throw"
              THEN /\ tTrace' = tTrace \o checked
                   /\ tResponse' = <<catchResponse(t, Throw(RateLimitMessage))>>
                   /\ tPc' = "done"
                   /\ UNCHANGED <<tResult, tCommands>>
              ELSE IF world.nul
              THEN /\ tTrace' = tTrace \o checked \o <<"spawn throws">>
                   /\ tCommands' = <<commandOf(t, world, 0)>>
                   /\ tResult' = <<Throw(SpawnThrowMessage)>>
                   /\ tResponse' = <<catchResponse(t, Throw(SpawnThrowMessage))>>
                   /\ tPc' = "done"
              ELSE /\ tTrace' = tTrace \o checked \o <<"spawn">>
                   /\ tCommands' = <<commandOf(t, world, 0)>>
                   /\ tPc' = "awaiting"
                   /\ UNCHANGED <<tResult, tResponse>>
    /\ UNCHANGED <<tool, world, tFates, tActed, tNotes, tOutcomes, now, admittedAt,
                   rejectedAt, opened>>
    /\ UNCHANGED restOfTool

last(s) == s[Len(s)]

\* the command that is running makes a note when Notes carries it out
makesNote(cmd, w) ==
    \/ cmd \in {"createSimple", "createInAccount"}
    \/ cmd = "createInFolder" /\ w.folderExists

\* Notes carries out the command of the running interpreter
CommandActs(t) ==
    /\ tPc = "awaiting" /\ tool = t
    /\ ~tActed
    /\ makesNote(last(tCommands), world)
    /\ tActed' = TRUE
    /\ tNotes' = tNotes + 1
    /\ UNCHANGED <<tool, world, tPc, tTrace, tFates, tCommands, tOutcomes, tResult,
                   tResponse, rateVars>>
    /\ UNCHANGED restOfTool

\* the fates open to the running process: the interpreter ends the command
\* only after Notes carried it out, it fails on the command or is not
\* launched only before that, and the timeout may end it at any moment
fatesNow(cmd, w, acted) ==
    {f \in Fates :
        /\ f = "ran" => (makesNote(cmd, w) => acted)
        /\ f \in {"scriptError", "ENOENT"} => ~acted}

\* runAppleScript resolves: the manager operation decodes the outcome and
\* returns, throws, or (createNote) starts its second command; the handler
\* turns what the operation returned or threw into its response
OutcomeArrives(t) ==
    /\ tPc = "awaiting" /\ tool = t
    /\ \E fate \in fatesNow(last(tCommands), world, tActed) :
        LET n == Len(tOutcomes) + 1
            result == outcomeOf(fate, commandOf(t, world, n - 1), world)
            r == decode(t, world, n, result)
        IN  /\ tFates' = Append(tFates, fate)
            /\ tOutcomes' = Append(tOutcomes, result)
            /\ IF r.how = "fallback"
               THEN /\ tTrace' = tTrace \o <<"outcome", "spawn">>
                    /\ tCommands' = Append(tCommands, commandOf(t, world, n))
                    /\ tActed' = FALSE
                    /\ UNCHANGED <<tPc, tResult, tResponse>>
               ELSE /\ tResult' = <<r>>
                    /\ tResponse' = <<respond(t, r)>>
                    /\ tPc' = "done"
                    /\ tTrace' = Append(tTrace, "outcome")
                    /\ UNCHANGED <<tCommands, tActed>>
    /\ UNCHANGED <<tool, world, tNotes, rateVars>>
    /\ UNCHANGED restOfTool

ToolNext == \E t \in Tools : HandlerEnter(t) \/ CommandActs(t) \/ OutcomeArrives(t)

ToolSpec == ToolInit /\ [][ToolNext]_vars

\* The event loop runs a handler that was called, and runAppleScript
\* settles its promise.
ToolLive ==
    /\ ToolSpec
    /\ \A t \in Tools : WF_vars(HandlerEnter(t)) /\ WF_vars(OutcomeArrives(t))

----------------------------------------------------------------------------
\* Claims about the manager operations and the tool handlers.

\* the failure result of the operation behind each tool
FailureResult(t) ==
    CASE t = "create-note" -> Throw(<<"Failed to create note">>)
      [] t = "search-notes" -> Throw(<<"Failed to search notes">>)
      [] t = "get-note-content" -> Throw(<<"Failed to get note content">>)
      [] t = "edit-note" -> Refused(<<"Failed to update note">>)
      [] t = "delete-note" -> Refused(<<"Failed to delete note">>)
      [] t = "list-accounts" -> Throw(<<"Failed to get accounts">>)
      [] t = "list-folders" -> Throw(<<"Failed to get folders">>)
      [] t = "move-note" -> Refused(<<"Failed to move note">>)

\* the sentinels of the command of each tool
Sentinels(t) ==
    CASE t = "create-note" -> {<<"folder not found">>}
      [] t \in {"edit-note", "delete-note"} -> {<<"not found">>}
      [] t = "move-note" -> {<<"folder not found">>, <<"note not found">>}
      [] OTHER -> {}

\* the fixed messages of the not-found results of each tool
NotFoundMessages(t) ==
    CASE t = "create-note" -> {<<"Specified folder not found">>}
      [] t \in {"edit-note", "delete-note"} -> {<<"Note not found">>}
      [] t = "move-note" -> {<<"Target folder not found">>, <<"Note not found">>}
      [] OTHER -> {}

\* a result that says "not found", returned or thrown
IsNotFound(t, r) ==
    \/ r.how = "throw" /\ r.message \in NotFoundMessages(t)
    \/ r.how = "return" /\ t \in {"edit-note", "delete-note", "move-note"}
          /\ ~r.success /\ r.error \in NotFoundMessages(t)

\* the original statement of C13: once an outcome with success = false has
\* been received, the operation ends with its failure result.
C13_FailedOutcomeFails ==
    (tPc = "done" /\ \E i \in 1..Len(tOutcomes) : ~tOutcomes[i].success)
        => tResult = <<FailureResult(tool)>>

\* C13: the last outcome an operation receives decides: if it has
\* success = false the operation ends with its failure result, and a
\* not-found result is given only for an outcome with success = true whose
\* output is a sentinel.  An earlier outcome exists only in createNote
\* without a folder, where a failed first outcome starts the account-scoped
\* command once.
C13_LastOutcomeDecides ==
    (tPc = "done" /\ tOutcomes # << >>) =>
        /\ ~last(tOutcomes).success => tResult = <<FailureResult(tool)>>
        /\ IsNotFound(tool, tResult[1]) =>
               /\ last(tOutcomes).success
               /\ last(tOutcomes).output \in Sentinels(tool)
        /\ Len(tOutcomes) <= 2
        /\ Len(tOutcomes) = 2 =>
               /\ tool = "create-note" /\ ~world.folder
               /\ ~tOutcomes[1].success

\* C13 witness: createNote without a folder returned a note after its first
\* command had failed.
C13_Witness ==
    /\ tPc = "done" /\ tool = "create-note"
    /\ Len(tOutcomes) = 2
    /\ ~tOutcomes[1].success /\ tOutcomes[2].success
    /\ tResult = <<[how |-> "return", value |-> "note"]>>

\* C14: moveNote answers 'Note not found' only when the target folder
\* exists, and when neither the folder nor the note exists the command that
\* ran prints "folder not found" and moveNote answers 'Target folder not
\* found'.
C14_FolderSentinelFirst ==
    (tPc = "done" /\ tool = "move-note" /\ tResult # << >>) =>
        /\ tResult[1] = Refused(<<"Note not found">>) => world.folderExists
        /\ (tFates = <<"ran">> /\ ~world.folderExists /\ ~world.noteExists) =>
               /\ tOutcomes[1] = [success |-> TRUE, output |-> <<"folder not found">>]
               /\ tResult[1] = Refused(<<"Target folder not found">>)
               /\ tResponse[1] = [isError |-> TRUE, text |-> <<"Target folder not found">>]

\* C14 witness: moveNote ran with neither the folder nor the note there.
C14_Witness ==
    /\ tPc = "done" /\ tool = "move-note"
    /\ tFates = <<"ran">>
    /\ ~world.folderExists /\ ~world.noteExists
    /\ tResult = <<Refused(<<"Target folder not found">>)>>

\* the named entity of the request does not exist
EntityMissing(t, w) ==
    CASE t = "create-note" -> w.folder /\ ~w.folderExists
      [] t \in {"get-note-content", "edit-note", "delete-note"} -> ~w.noteExists
      [] t = "move-note" -> ~w.folderExists \/ ~w.noteExists
      [] OTHER -> FALSE

\* C15: when the named entity does not exist and the interpreter runs the
\* command, the interpreter exits 0 and the operation reports a not-found
\* result, which is neither its success result nor its failure result.
C15_ThreeOutcomes ==
    (tPc = "done" /\ tFates = <<"ran">> /\ EntityMissing(tool, world)) =>
        /\ tOutcomes[1].success
        /\ IsNotFound(tool, tResult[1])
        /\ tResult[1] # FailureResult(tool)

\* the part of C15 that the operations other than getNoteContent meet
ThreeOutcomesWithSentinel ==
    tool # "get-note-content" => C15_ThreeOutcomes

\* C16: for an outcome with success = true whose output is the operation's
\* sentinel the operation returns a not-found value with a fixed message
\* and does not throw.
C16_NotFoundIsValue ==
    (tPc = "done" /\ tOutcomes # << >> /\ last(tOutcomes).success
         /\ last(tOutcomes).output \in Sentinels(tool)) =>
        /\ tResult[1].how = "return"
        /\ ~tResult[1].success
        /\ tResult[1].error \in NotFoundMessages(tool)

\* the part of C16 that editNote, deleteNote and moveNote meet
NotFoundIsValueOutsideCreateNote ==
    tool # "create-note" => C16_NotFoundIsValue

\* error texts the Executor may report for the same failure
ErrorTexts ==
    {<<"Failed to execute AppleScript: ", "spawn osascript ", "ENOENT">>,
     <<"AppleScript exited with code ", "null">>,
     <<"execution error: Not authorized. (-1743)">>,
     <<"Rate limit">>}

\* the same outcome with another error text
withError(o, e) == IF o.success THEN o ELSE [o EXCEPT !.error = e]

\* the result of the operation behind tool t for the outcomes outs
resultFor(t, w, outs) ==
    LET first == decode(t, w, 1, outs[1])
    IN  IF first.how = "fallback" /\ Len(outs) > 1 THEN decode(t, w, 2, outs[2])
        ELSE first

\* the fixed text a caller of each tool reads when the command failed
FailureText(t) ==
    CASE t = "create-note" -> <<"Failed to create note">>
      [] t = "search-notes" -> <<"Failed to search notes">>
      [] t = "get-note-content" -> <<"Failed to retrieve note">>
      [] t = "edit-note" -> <<"Failed to update note">>
      [] t = "delete-note" -> <<"Failed to delete note">>
      [] t = "list-accounts" -> <<"Failed to list accounts">>
      [] t = "list-folders" -> <<"Failed to list folders">>
      [] t = "move-note" -> <<"Failed to move note">>

C19_LimiterBeforeExecutor ==
    /\ \A i \in 1..Len(tTrace) :
           tTrace[i] = "spawn" => \E j \in 1..(i - 1) : tTrace[j] = "admitted"
    /\ "rejected" \in Range(tTrace) => "spawn" \notin Range(tTrace)

\* the part of C19 that the handlers other than list-accounts meet
LimiterBeforeExecutorWhereCalled ==
    tool # "list-accounts" => C19_LimiterBeforeExecutor

----------------------------------------------------------------------------
\* The rate limiter over time: requests to the handlers of two tools arrive
\* with non-decreasing timestamps.

\* the tool whose admissions are counted, and a second tool, which is only
\* requested when its request opens a window
CountedTool == "create-note"
SecondTool == "search-notes"

\* one more admission at instant at in the log of a tool
logged(log, at) ==
    IF log # << >> /\ log[Len(log)].at = at
    THEN [log EXCEPT ![Len(log)].n = @ + 1]
    ELSE Append(log, [at |-> at, n |-> 1])

RateInit ==
    /\ RateOff
    /\ ToolOff
    /\ BurstOff
    /\ BaseOff
    /\ ListOff

\* the entries of a log at instant at
loggedAt(log, at) ==
    IF log # << >> /\ log[Len(log)].at = at THEN log[Len(log)].n ELSE 0

\* a request to the handler of tool t: checkRateLimit(t) returns or throws
Request(t) ==
    /\ t = SecondTool => rateVerdict(t) = "open"
    /\ rateVerdict(t) = "throw" => loggedAt(rejectedAt[t], now) < MaxRejections
    /\ requestCounts' = requestCountsAfter(t)
    /\ admittedAt' = IF rateVerdict(t) = "throw" THEN admittedAt
                     ELSE [admittedAt EXCEPT ![t] = logged(@, now)]
    /\ rejectedAt' = IF rateVerdict(t) = "throw"
                     THEN [rejectedAt EXCEPT ![t] = logged(@, now)]
                     ELSE rejectedAt
    /\ opened' = IF rateVerdict(t) = "open"
                 THEN [opened EXCEPT ![t] = Append(@, now)]
                 ELSE opened
    /\ UNCHANGED now
    /\ UNCHANGED restOfRate

\* the clock runs until the window opened at its start has closed
RateHorizon == RATE_LIMIT_WINDOW

\* requests come in bursts: the clock moves on when every window has one
\* admission, or one admission left, or none left
Settled ==
    \A t \in DOMAIN requestCounts :
        requestCounts[t].count \in {1, MAX_REQUESTS_PER_WINDOW - 1, MAX_REQUESTS_PER_WINDOW}

\* time passes between two requests
RateTick ==
    /\ now <= RateHorizon
    /\ Settled
    /\ now' = now + RateTickMs
    /\ UNCHANGED <<requestCounts, admittedAt, rejectedAt, opened>>
    /\ UNCHANGED restOfRate

\* time passes up to the instant at which the window of the counted tool
\* ends
TickToReset ==
    /\ CountedTool \in DOMAIN requestCounts
    /\ now <= RateHorizon
    /\ Settled
    /\ now < requestCounts[CountedTool].resetTime
    /\ now' = requestCounts[CountedTool].resetTime
    /\ UNCHANGED <<requestCounts, admittedAt, rejectedAt, opened>>
    /\ UNCHANGED restOfRate

RateNext ==
    \/ Request(CountedTool)
    \/ Request(SecondTool)
    \/ RateTick
    \/ TickToReset

RateSpec == RateInit /\ [][RateNext]_vars

\* the admissions of a log at the instants from `from` up to, not
\* including, `to`
RECURSIVE admittedIn(_, _, _)
admittedIn(log, from, to) ==
    IF log = << >> THEN 0
    ELSE (IF Head(log).at >= from /\ Head(log).at < to THEN Head(log).n ELSE 0)
         + admittedIn(Tail(log), from, to)

\* the counter of a tool counts the admissions of that tool in its window
\* and no others
CountsOwnAdmissions ==
    \A t \in DOMAIN requestCounts :
        requestCounts[t].count =
            admittedIn(admittedAt[t], requestCounts[t].resetTime - RATE_LIMIT_WINDOW,
                       requestCounts[t].resetTime + 1)

\* C20: for each tool at most 30 requests are admitted within any span of
\* 60000 ms, and the requests for one tool do not use up the budget of
\* another.
C20_AtMostThirtyInAnySpan ==
    /\ \A t \in Tools :
           \A i \in 1..Len(admittedAt[t]) :
               admittedIn(admittedAt[t], admittedAt[t][i].at,
                          admittedAt[t][i].at + RATE_LIMIT_WINDOW) <= 30
    /\ CountsOwnAdmissions

\* what the limiter does keep: at most 30 admissions in one window, hence
\* fewer than 60 in any span of 60000 ms
AtMostThirtyInOneWindow ==
    /\ CountsOwnAdmissions
    /\ \A t \in DOMAIN requestCounts : requestCounts[t].count <= 30
    /\ \A t \in Tools :
           \A i \in 1..Len(admittedAt[t]) :
               admittedIn(admittedAt[t], admittedAt[t][i].at,
                          admittedAt[t][i].at + RATE_LIMIT_WINDOW) < 60

----------------------------------------------------------------------------
\* the manager operation reported failure: it threw, or it returned a value
\* with success = false
OperationFailed(t, r) ==
    \/ r.how = "throw"
    \/ r.how = "return" /\ t \in {"edit-note", "delete-note", "move-note"} /\ ~r.success

\* a response object of a handler
IsResponse(x) == DOMAIN x = {"isError", "text"} /\ x.isError \in BOOLEAN

\* while a handler runs it has given no response; when it has ended it has
\* given one response, with isError set if the rate limiter rejected the
\* request or the operation reported failure
OneResponse ==
    /\ tPc # "done" => tResponse = << >>
    /\ tPc = "done" =>
           /\ Len(tResponse) = 1
           /\ IsResponse(tResponse[1])
           /\ "rejected" \in Range(tTrace) => tResponse[1].isError
           /\ (tResult # << >> /\ OperationFailed(tool, tResult[1])) =>
                  tResponse[1].isError

\* C21: every handler invocation ends, with exactly one response, whatever
\* the verdict of the rate limiter and the outcome of the Executor; the
\* response has isError set whenever the rate limiter rejected the request
\* or the operation reported failure.
C21_AlwaysOneResponse == []OneResponse /\ <>(tPc = "done")

\* C21 witness: a handler met a timeout of its command and answered with an
\* error response.
C21_Witness ==
    /\ tPc = "done" /\ tool = "move-note"
    /\ tFates = <<"timeout">>
    /\ Len(tResponse) = 1 /\ tResponse[1].isError

----------------------------------------------------------------------------
\* the positions of entry x in a trace
positions(trace, x) == {i \in 1..Len(trace) : trace[i] = x}

----------------------------------------------------------------------------
\* a request for tool t was admitted, or rejected, in the step
admittedStep(t) == admittedAt'[t] # admittedAt[t]
rejectedStep(t) == rejectedAt'[t] # rejectedAt[t]

\* the windows of the tools: each entry has a count from 1 to 30 and ends
\* 60000 ms after the request that opened it; the windows of a tool do not
\* overlap, none holds more than 30 admissions, and a request was rejected
\* only in a window in which 30 had been admitted
Windows ==
    /\ \A t \in DOMAIN requestCounts :
           /\ requestCounts[t].count >= 1 /\ requestCounts[t].count <= 30
           /\ opened[t] # << >>
           /\ requestCounts[t].resetTime = last(opened[t]) + 60000
           /\ requestCounts[t].count =
                  admittedIn(admittedAt[t], last(opened[t]), last(opened[t]) + 60001)
    /\ \A t \in Tools :
           /\ \A k \in 1..Len(opened[t]) :
                  /\ admittedIn(admittedAt[t], opened[t][k], opened[t][k] + 60001) <= 30
                  /\ k > 1 => opened[t][k] > opened[t][k - 1] + 60000
           /\ \A i \in 1..Len(rejectedAt[t]) :
                  \E k \in 1..Len(opened[t]) :
                      /\ opened[t][k] <= rejectedAt[t][i].at
                      /\ rejectedAt[t][i].at <= opened[t][k] + 60000
                      /\ admittedIn(admittedAt[t], opened[t][k],
                                    rejectedAt[t][i].at + 1) = 30

\* inside a window a request is admitted while fewer than 30 have been, and
\* rejected from then on; a request at the instant resetTime belongs to the
\* window that ends there
WindowStep ==
    \A t \in Tools :
        /\ (admittedStep(t) /\ t \in DOMAIN requestCounts
                /\ now <= requestCounts[t].resetTime) =>
               /\ requestCounts[t].count < 30
               /\ requestCounts'[t].count = requestCounts[t].count + 1
               /\ requestCounts'[t].resetTime = requestCounts[t].resetTime
               /\ opened'[t] = opened[t]
        /\ rejectedStep(t) =>
               /\ t \in DOMAIN requestCounts
               /\ now <= requestCounts[t].resetTime
               /\ requestCounts[t].count = 30

\* C23: every entry of requestCounts has a count from 1 to 30 and a
\* resetTime 60000 ms after the request that opened its window; from the
\* opening of a window to its resetTime, that instant included, the first 30
\* requests for the tool are admitted and every further one is rejected.
C23_FixedWindow == []Windows /\ [][WindowStep]_vars

\* C23 witness: at the instant resetTime a request was counted against the
\* window that ends there and a further one was rejected.
C23_Witness ==
    /\ CountedTool \in DOMAIN requestCounts
    /\ requestCounts[CountedTool].resetTime = now
    /\ requestCounts[CountedTool].count = 30
    /\ loggedAt(admittedAt[CountedTool], now) > 0
    /\ loggedAt(rejectedAt[CountedTool], now) > 0

\* a rejected call leaves requestCounts as it was, and a request after
\* resetTime is admitted and opens a window with count = 1
RecoveryStep ==
    \A t \in Tools :
        /\ rejectedStep(t) => requestCounts' = requestCounts
        /\ ((admittedStep(t) \/ rejectedStep(t)) /\ t \in DOMAIN requestCounts
                /\ now > requestCounts[t].resetTime) =>
               /\ admittedStep(t)
               /\ requestCounts'[t] = [count |-> 1, resetTime |-> now + 60000]

\* C24: a rejected call of checkRateLimit leaves requestCounts unchanged,
\* and after any number of rejections the first request for the tool later
\* than resetTime is admitted and opens a new window with count = 1.
C24_RejectionFrame == [][RecoveryStep]_vars

\* C24 witness: a tool that had requests rejected has a new window with one
\* admission.
C24_Witness ==
    /\ CountedTool \in DOMAIN requestCounts
    /\ rejectedAt[CountedTool] # << >>
    /\ Len(opened[CountedTool]) = 2
    /\ last(rejectedAt[CountedTool]).at < last(opened[CountedTool])
    /\ requestCounts[CountedTool] = [count |-> 1, resetTime |-> now + 60000]

----------------------------------------------------------------------------
\* createNote returned the Note
ReturnedNote == tPc = "done" /\ tResult = <<[how |-> "return", value |-> "note"]>>

\* createNote threw 'Failed to create note'
ThrewFailed == tPc = "done" /\ tResult = <<Throw(<<"Failed to create note">>)>>

\* C26: a createNote call makes at most one note, exactly one when it
\* returns a Note and none when it throws 'Failed to create note', however
\* the effect of a command, its exit or its end by the timeout and the
\* fallback interleave.
C26_AtMostOneNote ==
    tool = "create-note" =>
        /\ tNotes <= 1
        /\ ReturnedNote => tNotes = 1
        /\ ThrewFailed => tNotes = 0

\* What holds of createNote: when no interpreter was ended by the timeout,
\* the call makes at most one note, one when it returns the Note and none
\* when it throws; and no call makes more than one note per command.
OneNoteUnlessTimedOut ==
    tool = "create-note" =>
        /\ tNotes <= Len(tCommands)
        /\ (\A i \in 1..Len(tFates) : tFates[i] # "timeout") =>
               /\ tNotes <= 1
               /\ ReturnedNote => tNotes = 1
               /\ ThrewFailed => tNotes = 0

\* a createNote call that returned the Note after its first command had
\* made a note and been ended by the timeout: two notes
TwoNotesMade ==
    /\ tool = "create-note" /\ ReturnedNote
    /\ tFates = <<"timeout", "ran">>
    /\ tNotes = 2

----------------------------------------------------------------------------
\* Concurrent requests to the handler of one rate-limited tool
\* (index.ts 108-391 with checkRateLimit, appleNotesManager.ts).

MaxInFlight == 2

\* the requests that can be awaiting runAppleScript at once
BurstCalls == 1..MaxInFlight

BurstInit ==
    /\ bTool \in RateLimited
    /\ bWorld \in Worlds(bTool)
    /\ bCalls = [i \in BurstCalls |-> null]
    /\ bVerdict = "none"
    /\ bSpawned = 0
    /\ bSecond = 0
    /\ RateOff
    /\ ToolOff
    /\ BaseOff
    /\ ListOff

\* the instant now lies in the window of the tool's entry
inWindow(t) == t \in DOMAIN requestCounts /\ now <= requestCounts[t].resetTime

\* a request arrives: its handler runs up to the first await, through
\* checkRateLimit and, if that returns, the operation up to runAppleScript,
\* where spawn starts the process or throws
BurstEnter(i) ==
    /\ bCalls[i] = null
    /\ bVerdict' = rateVerdict(bTool)
    /\ requestCounts' = requestCountsAfter(bTool)
    /\ IF rateVerdict(bTool) = "throw" \/ bWorld.nul
       THEN /\ bSpawned' = IF rateVerdict(bTool) = "open" THEN 0 ELSE bSpawned
            /\ bSecond' = IF rateVerdict(bTool) = "open" THEN 0 ELSE bSecond
            /\ UNCHANGED bCalls
       ELSE /\ bSpawned' = IF rateVerdict(bTool) = "open" THEN 1 ELSE bSpawned + 1
            /\ bSecond' = IF rateVerdict(bTool) = "open" THEN 0 ELSE bSecond
            /\ bCalls' = [bCalls EXCEPT ![i] = 0]
    /\ UNCHANGED <<bTool, bWorld, now, admittedAt, rejectedAt, opened>>
    /\ UNCHANGED restOfBurst

\* runAppleScript resolves for request i: its operation decodes the outcome
\* and ends, or (createNote) starts its second command
BurstOutcome(i) ==
    /\ bCalls[i] # null
    /\ \E fate \in Fates :
        LET n == bCalls[i] + 1
            result == outcomeOf(fate, commandOf(bTool, bWorld, n - 1), bWorld)
            r == decode(bTool, bWorld, n, result)
        IN  IF r.how = "fallback"
            THEN /\ bCalls' = [bCalls EXCEPT ![i] = n]
                 /\ bSpawned' = IF inWindow(bTool) THEN bSpawned + 1 ELSE bSpawned
                 /\ bSecond' = IF inWindow(bTool) THEN bSecond + 1 ELSE bSecond
            ELSE /\ bCalls' = [bCalls EXCEPT ![i] = null]
                 /\ UNCHANGED <<bSpawned, bSecond>>
    /\ bVerdict' = "none"
    /\ UNCHANGED <<bTool, bWorld, rateVars>>
    /\ UNCHANGED restOfBurst

\* time passes
BurstTick ==
    /\ now <= RateHorizon
    /\ now' = now + RateTickMs
    /\ bVerdict' = "none"
    /\ UNCHANGED <<bTool, bWorld, bCalls, bSpawned, bSecond, requestCounts,
                   admittedAt, rejectedAt, opened>>
    /\ UNCHANGED restOfBurst

BurstNext ==
    \/ \E i \in BurstCalls : BurstEnter(i) \/ BurstOutcome(i)
    \/ BurstTick

BurstSpec == BurstInit /\ [][BurstNext]_vars

\* C25: the interpreter processes started for a rate-limited tool within one
\* rate-limit window number at most 30, however the concurrent requests
\* interleave and whatever the outcomes of their commands.
C25_AtMostThirtyProcesses == bSpawned <= 30

\* What the limiter bounds: the first commands of the requests, at most 30
\* in a window; only createNote runs second commands, at most one for each
\* request admitted in the window or still awaiting its first command when
\* the window opened.
AtMostThirtyFirstCommands ==
    /\ bSpawned - bSecond <= 30
    /\ bTool # "create-note" => bSecond = 0
    /\ bSecond <= 30 + MaxInFlight

\* the 30 requests of a window to create-note started 31 or more processes
MoreProcessesThanRequests ==
    /\ bTool = "create-note"
    /\ inWindow(bTool)
    /\ requestCounts[bTool].count = 30
    /\ bSpawned > 30

====
